---- MODULE Spec2Model ----
(***************************************************************************)
(* Model of api/storage.js: a serverless request handler that keeps one    *)
(* JSON document (STORAGE_KEY) and one connectivity marker (PING_KEY) in   *)
(* the Postgres table app_storage.                                         *)
(*                                                                         *)
(* A handler invocation runs synchronously up to its next `await`; every   *)
(* action below is one such run: the arrival of a request up to its first  *)
(* database statement, or the completion of one database statement up to   *)
(* the next statement or the response.  Invocations interleave only at     *)
(* the awaits, i.e. at database statements, which the database executes    *)
(* one at a time.                                                          *)
(***************************************************************************)
EXTENDS Integers, Sequences, FiniteSets, TLC

\* ------------------------------------------------------------------ bounds
NumReq == 3        \* request slots (requests that arrive in one behaviour)
MaxOpen == 2       \* requests of a serial or a concurrent workload
MaxTime == 2       \* the readings of Date.now() range over 1..MaxTime

Reqs == 1..NumReq
Times == 1..MaxTime

\* --------------------------------------------------------------- constants
STORAGE_KEY == "sdmfpippdc:storage:v1"
PING_KEY == "sdmfpippdc:ping:v1"

\* ------------------------------------------------- JavaScript / JSON values
\* Every value is a record of one shape: t is the type tag, a the text of an
\* atom, kids the members of an object or array as <<name, value>> pairs
\* (an array's names are its indices).
JV(t, a, kids) == [t |-> t, a |-> a, kids |-> kids]
Undefined == JV("undefined", "", {})
JNull == JV("null", "", {})
JTrue == JV("bool", "true", {})
JFalse == JV("bool", "false", {})
JNum(s) == JV("num", s, {})
JStr(s) == JV("str", s, {})
JObj(kids) == JV("obj", "", kids)
JArr(kids) == JV("arr", "", kids)
EmptyObj == JObj({})

\* A string holding the character U+0000, which jsonb cannot store.
NulText == "a<U+0000>"

\* v.k for a JavaScript value v: undefined unless v has the member.
Prop(v, k) ==
  IF \E p \in v.kids : p[1] = k
  THEN (CHOOSE p \in v.kids : p[1] = k)[2]
  ELSE Undefined

\* JavaScript truthiness (the `x && ...`, `x || ...`, `x ? ...` tests).
Truthy(v) ==
  CASE v.t \in {"undefined", "null"} -> FALSE
    [] v.t = "bool" -> v.a = "true"
    [] v.t = "num" -> v.a \notin {"0", "NaN"}
    [] v.t = "str" -> v.a # ""
    [] OTHER -> TRUE

\* typeof v === 'object': objects, arrays and null.
TypeofObject(v) == v.t \in {"obj", "arr", "null"}

\* JSON.stringify followed by a parse of the text it produced: non-finite
\* numbers become null, undefined members of an object are dropped and
\* undefined elements of an array become null.
RECURSIVE JSON_stringify(_)
JSON_stringify(v) ==
  CASE v.t = "num" /\ v.a \in {"Infinity", "-Infinity", "NaN"} -> JNull
    [] v.t = "obj" ->
         JObj({<<p[1], JSON_stringify(p[2])>> :
                 p \in {q \in v.kids : q[2].t # "undefined"}})
    [] v.t = "arr" ->
         JArr({<<p[1], IF p[2].t = "undefined" THEN JNull
                       ELSE JSON_stringify(p[2])>> : p \in v.kids})
    [] OTHER -> v

\* Does the document contain a string with U+0000 (as a value or a name)?
RECURSIVE HasNul(_)
HasNul(v) ==
  \/ v.t = "str" /\ v.a = NulText
  \/ \E p \in v.kids : p[1] = NulText \/ HasNul(p[2])

\* Mutant of ToJsonb: the JSON text is stored as a jsonb string (encoded twice).
ToJsonb_asText(v) ==
  [ok |-> ~HasNul(JSON_stringify(v)), val |-> JStr("<json text>")]

\* ${JSON.stringify(v)}::jsonb : the document the column receives, or the
\* cast's failure (jsonb rejects \u0000).
ToJsonb(v) ==
  LET j == JSON_stringify(v)
  IN  [ok |-> ~HasNul(j), val |-> j]

\* ------------------------------------------------------------ request input
V1 == JObj({<<"a", JNum("1")>>})
V2 == JObj({<<"b", JObj({<<"c", JStr("x")>>})>>, <<"d", JArr({<<"0", JNull>>})>>})
VNul == JObj({<<"s", JStr(NulText)>>})
Arr1 == JArr({<<"0", JNum("1")>>})

\* The JSON document a body text denotes, numbers kept as their literals;
\* ok = FALSE when the text is not JSON.
JsonDoc(text) ==
  CASE text = "{}" -> [ok |-> TRUE, val |-> EmptyObj]
    [] text = "{\"kv\":{\"a\":1}}" ->
         [ok |-> TRUE, val |-> JObj({<<"kv", JObj({<<"a", JNum("1")>>})>>})]
    [] text = "{\"kv\":{\"n\":1e999}}" ->
         [ok |-> TRUE, val |-> JObj({<<"kv", JObj({<<"n", JNum("1e999")>>})>>})]
    [] text = "{\"ping\":true}" -> [ok |-> TRUE, val |-> JObj({<<"ping", JTrue>>})]
    [] text = "null" -> [ok |-> TRUE, val |-> JNull]
    [] text = "\"x\"" -> [ok |-> TRUE, val |-> JStr("x")]
    [] OTHER -> [ok |-> FALSE, val |-> Undefined]

\* The double a number literal is read as: a literal beyond the double
\* range is read as Infinity.
ToDouble(lit) == IF lit = "1e999" THEN "Infinity" ELSE lit

\* The JavaScript value of a JSON document.
RECURSIVE JsValue(_)
JsValue(v) ==
  CASE v.t = "num" -> JNum(ToDouble(v.a))
    [] v.t \in {"obj", "arr"} ->
         JV(v.t, "", {<<p[1], JsValue(p[2])>> : p \in v.kids})
    [] OTHER -> v

\* JSON.parse(text); ok = FALSE is a SyntaxError.
JSON_parse(text) ==
  LET d == JsonDoc(text)
  IN  [ok |-> d.ok, val |-> JsValue(d.val)]

\* req.body: a string, an already parsed value, or a getter that throws
\* (the platform's body helper on an unparsable JSON payload).
BodyString(s) == [kind |-> "string", text |-> s, val |-> Undefined]
BodyValue(v) == [kind |-> "value", text |-> "", val |-> v]
BodyThrows == [kind |-> "throws", text |-> "", val |-> Undefined]

ObjectDocs == {V1, V2, EmptyObj, VNul}

Bodies ==
  {BodyValue(JObj({<<"kv", v>>})) : v \in ObjectDocs}
  \cup {BodyValue(v) : v \in
         { Undefined, JNull, EmptyObj,
           JObj({<<"kv", Arr1>>}),
           JObj({<<"kv", JStr("x")>>}),
           JObj({<<"kv", JNull>>}),
           JObj({<<"ping", JTrue>>}),
           JObj({<<"ping", JFalse>>, <<"kv", V1>>}),
           JObj({<<"ping", JNum("1")>>, <<"kv", V1>>}) }}
  \cup {BodyString(s) : s \in
         { "", "{bad", "null", "\"x\"", "{\"ping\":true}",
           "{\"kv\":{\"a\":1}}", "{\"kv\":{\"n\":1e999}}" }}
  \cup {BodyThrows}

\* parseBody(req)
parseBody(b) ==
  IF b.kind = "throws" THEN EmptyObj
  ELSE IF b.kind = "string"
       THEN LET r == JSON_parse(IF b.text = "" THEN "{}" ELSE b.text)
            IN  IF r.ok THEN r.val ELSE EmptyObj
       ELSE IF Truthy(b.val) THEN b.val ELSE EmptyObj

Methods == {"GET", "POST", "DELETE"}

\* Request targets.  new URL(u, 'http://localhost') throws on the last two.
Urls == { "/api/storage", "/api/storage?diag=1", "/api/storage?diag=true",
          "/api/storage?diag=0", "//[?diag=1", "//[?diag=true" }
UrlParses(u) == u \notin {"//[?diag=1", "//[?diag=true"}
\* u.searchParams.get('diag') of a target that parses ("" stands for null).
DiagParam(u) ==
  CASE u = "/api/storage?diag=1" -> "1"
    [] u = "/api/storage?diag=true" -> "true"
    [] u = "/api/storage?diag=0" -> "0"
    [] OTHER -> ""
\* String(u).indexOf('diag=1') >= 0
ContainsDiag1(u) == u \in {"/api/storage?diag=1", "//[?diag=1"}

\* Mutant of IsDiag: only diag=1 is recognised.
IsDiag_only1(u) ==
  IF UrlParses(u) THEN DiagParam(u) = "1" ELSE ContainsDiag1(u)

\* The handler's `diag` flag.
IsDiag(u) ==
  IF UrlParses(u) THEN DiagParam(u) \in {"1", "true"} ELSE ContainsDiag1(u)

\* -------------------------------------------------------------- environment
EnvVars == { "POSTGRES_URL", "POSTGRES_PRISMA_URL", "POSTGRES_URL_NON_POOLING",
             "POSTGRES_HOST", "DATABASE_URL" }
NoEnv == [v \in EnvVars |-> ""]      \* "" stands for unset or empty
OnlyDatabaseUrl == [NoEnv EXCEPT !["DATABASE_URL"] = "postgres://neon/db"]
OnlyHost == [NoEnv EXCEPT !["POSTGRES_HOST"] = "pg.host"]
RawEnvs == {NoEnv, OnlyDatabaseUrl, OnlyHost}
\* Every environment a process may start with, over two connection strings.
EnvValues == {"", "postgres://neon/db", "postgres://other/db"}
AllEnvs == [EnvVars -> EnvValues]

\* Mutant of ModuleInit: DATABASE_URL is copied whenever it is set.
ModuleInit_overwrite(e) ==
  IF e["DATABASE_URL"] # ""
  THEN [e EXCEPT !["POSTGRES_URL"] = e["DATABASE_URL"]]
  ELSE e

\* Module initialisation: DATABASE_URL stands in for a missing POSTGRES_URL.
ModuleInit(e) ==
  IF e["POSTGRES_URL"] = "" /\ e["DATABASE_URL"] # ""
  THEN [e EXCEPT !["POSTGRES_URL"] = e["DATABASE_URL"]]
  ELSE e

\* Mutant of hasPostgresEnv: the test is always true.
hasPostgresEnv_always(e) == e = e

hasPostgresEnv(e) ==
  \/ e["POSTGRES_URL"] # ""
  \/ e["POSTGRES_PRISMA_URL"] # ""
  \/ e["POSTGRES_URL_NON_POOLING"] # ""
  \/ e["POSTGRES_HOST"] # ""
  \/ e["DATABASE_URL"] # ""

NodeVersion == "v20.0.0"
JBool(b) == IF b THEN JTrue ELSE JFalse

\* ---------------------------------------------------------------- responses
NoStore == <<"Cache-Control", "no-store">>
AllowGetPost == <<"Allow", "GET, POST">>
NoResp == [status |-> 0, headers |-> {}, body |-> Undefined]

\* The body of the diagnostic response.
\* Mutant of DiagBody: the host is reported by its value.
DiagBody_hostValue(e) ==
  JObj({ <<"ok", JTrue>>,
         <<"diag", JObj({ <<"hasPostgresEnv", JBool(hasPostgresEnv(e))>>,
                          <<"has_POSTGRES_URL", JBool(e["POSTGRES_URL"] # "")>>,
                          <<"has_POSTGRES_PRISMA_URL", JBool(e["POSTGRES_PRISMA_URL"] # "")>>,
                          <<"has_POSTGRES_URL_NON_POOLING", JBool(e["POSTGRES_URL_NON_POOLING"] # "")>>,
                          <<"has_POSTGRES_HOST", JStr(e["POSTGRES_HOST"])>>,
                          <<"has_DATABASE_URL", JBool(e["DATABASE_URL"] # "")>>,
                          <<"node", JStr(NodeVersion)>> })>> })

DiagBody(e) ==
  JObj({ <<"ok", JTrue>>,
         <<"diag", JObj({ <<"hasPostgresEnv", JBool(hasPostgresEnv(e))>>,
                          <<"has_POSTGRES_URL", JBool(e["POSTGRES_URL"] # "")>>,
                          <<"has_POSTGRES_PRISMA_URL", JBool(e["POSTGRES_PRISMA_URL"] # "")>>,
                          <<"has_POSTGRES_URL_NON_POOLING", JBool(e["POSTGRES_URL_NON_POOLING"] # "")>>,
                          <<"has_POSTGRES_HOST", JBool(e["POSTGRES_HOST"] # "")>>,
                          <<"has_DATABASE_URL", JBool(e["DATABASE_URL"] # "")>>,
                          <<"node", JStr(NodeVersion)>> })>> })

NotConfiguredBody ==
  JObj({ <<"ok", JFalse>>, <<"error", JStr("pg_not_configured")>>,
         <<"message", JStr("Vercel Postgres (Neon) non configure (variables d'environnement manquantes).")>> })

MethodNotAllowedBody ==
  JObj({ <<"ok", JFalse>>, <<"error", JStr("method_not_allowed")>> })

\* Errors a database statement can throw: message, code and name, "" for a
\* missing or empty property.
DbErrors ==
  { [message |-> "Connection terminated unexpectedly", code |-> "ECONNRESET", name |-> "Error"],
    [message |-> "", code |-> "", name |-> ""] }
NoTableError == [message |-> "relation \"app_storage\" does not exist", code |-> "42P01", name |-> "NeonDbError"]
NulError == [message |-> "unsupported Unicode escape sequence", code |-> "22P05", name |-> "NeonDbError"]

\* The body built by the handler's catch block.
ErrorBody(e) ==
  JObj({ <<"ok", JFalse>>,
         <<"error", JStr(IF e.message # "" THEN e.message ELSE "server_error")>>,
         <<"details", JObj({ <<"code", IF e.code # "" THEN JStr(e.code) ELSE Undefined>>,
                             <<"name", IF e.name # "" THEN JStr(e.name) ELSE Undefined>> })>> })

\* -------------------------------------------------------------------- state
VARIABLES
  startEnv,     \* process.env as the process started
  loaded,       \* has the module been loaded (lines 14-21 run)
  env,          \* process.env
  workload,     \* how requests arrive: "serial" or "concurrent"
  tableExists,  \* does app_storage exist
  rows,         \* the rows of app_storage, a sequence of [key, value]; the
                \* column updated_at, which every upsert writes and no
                \* statement reads, is left out
  lastWriter,   \* the slot whose upsert of the STORAGE_KEY row executed last, 0 for none
  reqs          \* the handler invocations, one per request slot

vars == <<startEnv, loaded, env, workload, tableExists, rows, lastWriter, reqs>>

IdleReq ==
  [ pc |-> "idle", method |-> "", url |-> "", body |-> BodyValue(Undefined),
    kv |-> Undefined, stamp |-> "", resp |-> NoResp, sent |-> 0, stmts |-> <<>> ]

\* res.setHeader(...) ; return res.status(s).json(b)
Respond(q, s, hs, b) ==
  [q EXCEPT !.pc = "done",
            !.resp = [status |-> s, headers |-> hs, body |-> b],
            !.sent = @ + 1]

\* Mutant of Catch: the error is swallowed and nothing is sent.
Catch_swallow(q, e) == [q EXCEPT !.pc = "done"]

\* Mutant of Catch: the status is left at its default.
Catch_noStatus(q, e) == Respond(q, 200, {NoStore}, ErrorBody(e))

\* The handler's catch block.
Catch(q, e) == Respond(q, 500, {NoStore}, ErrorBody(e))

\* A database statement of the invocation, with its outcome.
Issued(q, op, ok) == [q EXCEPT !.stmts = Append(@, [op |-> op, ok |-> ok])]

\* Mutant of SelectValue: the WHERE clause is missing.
SelectValue_anyKey(tbl, k) ==
  IF Len(tbl) = 0 THEN <<>> ELSE <<Head(tbl).value>>

\* SELECT value FROM app_storage WHERE key = k LIMIT 1
SelectValue(tbl, k) ==
  LET hit == SelectSeq(tbl, LAMBDA x : x.key = k)
  IN  IF Len(hit) = 0 THEN <<>> ELSE <<Head(hit).value>>

\* Mutant of Upsert: a plain insert into a table without the primary key.
Upsert_insertOnly(tbl, k, v) == Append(tbl, [key |-> k, value |-> v])

\* Mutant of Upsert: ON CONFLICT (key) DO NOTHING.
Upsert_keepFirst(tbl, k, v) ==
  IF \E i \in 1..Len(tbl) : tbl[i].key = k
  THEN tbl
  ELSE Append(tbl, [key |-> k, value |-> v])

\* Mutant of Upsert: on conflict the value is set to the column default.
Upsert_defaultOnConflict(tbl, k, v) ==
  IF \E i \in 1..Len(tbl) : tbl[i].key = k
  THEN [i \in 1..Len(tbl) |->
          IF tbl[i].key = k THEN [key |-> k, value |-> EmptyObj] ELSE tbl[i]]
  ELSE Append(tbl, [key |-> k, value |-> v])

\* INSERT INTO app_storage(key, value, updated_at) VALUES (k, v, NOW())
\* ON CONFLICT (key) DO UPDATE SET value = EXCLUDED.value, updated_at = NOW()
Upsert(tbl, k, v) ==
  IF \E i \in 1..Len(tbl) : tbl[i].key = k
  THEN [i \in 1..Len(tbl) |->
          IF tbl[i].key = k THEN [key |-> k, value |-> v] ELSE tbl[i]]
  ELSE Append(tbl, [key |-> k, value |-> v])

\* ---------------------------------------------------------------- workloads
\* Serial: requests arrive one after the other; the first is any request,
\* the following ones read the document back.  Concurrent: requests of a
\* few kinds arrive at any time and interleave at their statements.
\* Repeat: a client sends a POST, sends the same POST again, then reads the
\* document back, one request after the other.  Boot: the process starts
\* in any environment, loads the module, and is asked for its diagnostic.
AllInputs == Methods \X Urls \X Bodies
ProbeInputs == {<<"GET", "/api/storage", BodyValue(Undefined)>>}
RepeatInputs == {"POST"} \X {"/api/storage"} \X Bodies
BootInputs == { <<"GET", "/api/storage?diag=1", BodyValue(Undefined)>>,
                <<"GET", "/api/storage", BodyValue(Undefined)>> }
ConcInputs ==
  { <<"GET", "/api/storage", BodyValue(Undefined)>>,
    <<"POST", "/api/storage", BodyValue(JObj({<<"kv", V1>>}))>>,
    <<"POST", "/api/storage", BodyValue(JObj({<<"kv", V2>>}))>>,
    <<"POST", "/api/storage", BodyValue(JObj({<<"ping", JTrue>>}))>>,
    <<"POST", "/api/storage", BodyValue(JObj({<<"ping", JTrue>>, <<"kv", V2>>}))>>,
    <<"DELETE", "/api/storage", BodyValue(Undefined)>> }

InFlight(q) == q.pc \notin {"idle", "done"}

\* The requests that may arrive in slot r now.
Arrivals(r) ==
  IF reqs[r].pc # "idle" \/ \E q \in Reqs : q < r /\ reqs[q].pc = "idle"
  THEN {}
  ELSE IF workload = "concurrent"
       THEN IF r <= MaxOpen THEN ConcInputs ELSE {}
  ELSE IF \E q \in Reqs : InFlight(reqs[q]) THEN {}
  ELSE IF workload = "boot" THEN BootInputs
  ELSE IF workload = "repeat"
       THEN IF r = 1 THEN RepeatInputs
            ELSE IF r = 2 THEN {<<reqs[1].method, reqs[1].url, reqs[1].body>>}
            ELSE ProbeInputs
  ELSE IF r > MaxOpen THEN {}
  ELSE IF r = 1 THEN AllInputs ELSE ProbeInputs

Init ==
  /\ workload \in {"serial", "concurrent", "repeat"}
  /\ startEnv \in (IF workload = "serial" THEN RawEnvs ELSE {NoEnv, OnlyDatabaseUrl})
  /\ loaded = TRUE
  /\ env = ModuleInit(startEnv)
  /\ tableExists \in BOOLEAN
  /\ rows = <<>>
  /\ lastWriter = 0
  /\ reqs = [r \in Reqs |-> IdleReq]

\* A process that has not loaded the module yet, in any environment.
InitBoot ==
  /\ workload = "boot"
  /\ startEnv \in AllEnvs
  /\ loaded = FALSE
  /\ env = startEnv
  /\ tableExists = FALSE
  /\ rows = <<>>
  /\ lastWriter = 0
  /\ reqs = [r \in Reqs |-> IdleReq]

\* ------------------------------------------------------------------ actions
\* The module is loaded: the DATABASE_URL fallback runs, once.
LoadModule ==
  /\ ~loaded
  /\ loaded' = TRUE
  /\ env' = ModuleInit(env)
  /\ UNCHANGED <<startEnv, workload, tableExists, rows, lastWriter, reqs>>

\* A request arrives and the handler runs to its first await: the diagnostic
\* response, the 503 of an unconfigured environment, or the call of
\* ensureSchema().
Receive(r, m, u, b) ==
  /\ loaded
  /\ <<m, u, b>> \in Arrivals(r)
  /\ LET q == [reqs[r] EXCEPT !.method = m, !.url = u, !.body = b]
     IN  reqs' = [reqs EXCEPT ![r] =
           IF IsDiag(u) THEN Respond(q, 200, {NoStore}, DiagBody(env))
           ELSE IF ~hasPostgresEnv(env) THEN Respond(q, 503, {NoStore}, NotConfiguredBody)
           ELSE [q EXCEPT !.pc = "schema"]]
  /\ UNCHANGED <<startEnv, loaded, env, workload, tableExists, rows, lastWriter>>

\* Mutant of PostDispatch: a body with a kv object is stored, ping or not.
PostDispatch_kvFirst(q, t) ==
  LET body == parseBody(q.body)
  IN  IF Truthy(body) /\ Truthy(Prop(body, "kv")) /\ TypeofObject(Prop(body, "kv"))
      THEN [q EXCEPT !.pc = "dataUpsert", !.kv = Prop(body, "kv")]
      ELSE IF Truthy(body) /\ Truthy(Prop(body, "ping"))
      THEN [q EXCEPT !.pc = "pingUpsert", !.stamp = ToString(t)]
      ELSE [q EXCEPT !.pc = "dataUpsert", !.kv = EmptyObj]

\* The POST branch up to its await: the ping stamp, or the document to store.
PostDispatch(q, t) ==
  LET body == parseBody(q.body)
  IN  IF Truthy(body) /\ Truthy(Prop(body, "ping"))
      THEN [q EXCEPT !.pc = "pingUpsert", !.stamp = ToString(t)]
      ELSE [q EXCEPT !.pc = "dataUpsert",
                     !.kv = IF /\ Truthy(body)
                               /\ Truthy(Prop(body, "kv"))
                               /\ TypeofObject(Prop(body, "kv"))
                            THEN Prop(body, "kv") ELSE EmptyObj]

\* Mutant of Dispatch: every method but GET is handled as a POST.
Dispatch_noMethodCheck(q, t) ==
  IF q.method = "GET" THEN [q EXCEPT !.pc = "select"]
  ELSE PostDispatch(q, t)

\* The handler after ensureSchema() has returned, up to its next await.
Dispatch(q, t) ==
  IF q.method = "GET" THEN [q EXCEPT !.pc = "select"]
  ELSE IF q.method = "POST" THEN PostDispatch(q, t)
  ELSE Respond(q, 405, {AllowGetPost}, MethodNotAllowedBody)

\* Mutant of EnsureSchema: the statement is skipped once the table exists.
EnsureSchema_onlyOnce(r, t) ==
  /\ reqs[r].pc = "schema"
  /\ tableExists' = TRUE
  /\ reqs' = [reqs EXCEPT ![r] =
       Dispatch(IF tableExists THEN @ ELSE Issued(@, "create", TRUE), t)]
  /\ UNCHANGED <<startEnv, loaded, env, workload, rows, lastWriter>>

\* CREATE TABLE IF NOT EXISTS app_storage succeeds; t is Date.now() as the
\* handler reads it if it goes on to a ping.
EnsureSchema(r, t) ==
  /\ reqs[r].pc = "schema"
  /\ tableExists' = TRUE
  /\ reqs' = [reqs EXCEPT ![r] = Dispatch(Issued(@, "create", TRUE), t)]
  /\ UNCHANGED <<startEnv, loaded, env, workload, rows, lastWriter>>

\* GET: the SELECT of the STORAGE_KEY row returns.
SelectStorage(r) ==
  /\ reqs[r].pc = "select"
  /\ reqs' = [reqs EXCEPT ![r] =
       IF ~tableExists THEN Catch(Issued(@, "select", FALSE), NoTableError)
       ELSE LET got == SelectValue(rows, STORAGE_KEY)
                kv == IF Len(got) > 0 /\ Truthy(got[1]) THEN got[1] ELSE EmptyObj
            IN  Respond(Issued(@, "select", TRUE), 200, {NoStore},
                        JObj({<<"ok", JTrue>>, <<"kv", kv>>}))]
  /\ UNCHANGED <<startEnv, loaded, env, workload, tableExists, rows, lastWriter>>

\* POST, ping: the upsert of the PING_KEY row returns.
PingUpsert(r) ==
  /\ reqs[r].pc = "pingUpsert"
  /\ LET doc == ToJsonb(JObj({<<"stamp", JStr(reqs[r].stamp)>>}))
     IN  IF tableExists /\ doc.ok
         THEN /\ rows' = Upsert(rows, PING_KEY, doc.val)
              /\ lastWriter' = lastWriter
              /\ reqs' = [reqs EXCEPT ![r] =
                   [Issued(@, "upsert", TRUE) EXCEPT !.pc = "pingSelect"]]
         ELSE /\ rows' = rows
              /\ lastWriter' = lastWriter
              /\ reqs' = [reqs EXCEPT ![r] =
                   Catch(Issued(@, "upsert", FALSE),
                         IF tableExists THEN NulError ELSE NoTableError)]
  /\ UNCHANGED <<startEnv, loaded, env, workload, tableExists>>

\* Mutant of StampReadBack: any row read back will do.
StampReadBack_anyRow(got, stamp) == Len(got) > 0 /\ Truthy(got[1])

\* !!(rows && rows[0] && rows[0].value && rows[0].value.stamp === stamp)
StampReadBack(got, stamp) ==
  /\ Len(got) > 0
  /\ Truthy(got[1])
  /\ Prop(got[1], "stamp") = JStr(stamp)

\* POST, ping: the read-back of the PING_KEY row returns.
PingSelect(r) ==
  /\ reqs[r].pc = "pingSelect"
  /\ reqs' = [reqs EXCEPT ![r] =
       IF ~tableExists THEN Catch(Issued(@, "select", FALSE), NoTableError)
       ELSE LET got == SelectValue(rows, PING_KEY)
                ok == StampReadBack(got, @.stamp)
            IN  Respond(Issued(@, "select", TRUE), IF ok THEN 200 ELSE 500,
                        {NoStore}, JObj({<<"ok", JBool(ok)>>}))]
  /\ UNCHANGED <<startEnv, loaded, env, workload, tableExists, rows, lastWriter>>

\* POST, data: the upsert of the STORAGE_KEY row returns.
DataUpsert(r) ==
  /\ reqs[r].pc = "dataUpsert"
  /\ LET doc == ToJsonb(reqs[r].kv)
     IN  IF tableExists /\ doc.ok
         THEN /\ rows' = Upsert(rows, STORAGE_KEY, doc.val)
              /\ lastWriter' = r
              /\ reqs' = [reqs EXCEPT ![r] =
                   Respond(Issued(@, "upsert", TRUE), 200, {NoStore},
                           JObj({<<"ok", JTrue>>}))]
         ELSE /\ rows' = rows
              /\ lastWriter' = lastWriter
              /\ reqs' = [reqs EXCEPT ![r] =
                   Catch(Issued(@, "upsert", FALSE),
                         IF tableExists THEN NulError ELSE NoTableError)]
  /\ UNCHANGED <<startEnv, loaded, env, workload, tableExists>>

StmtOf(pc) ==
  CASE pc = "schema" -> "create"
    [] pc \in {"select", "pingSelect"} -> "select"
    [] OTHER -> "upsert"

\* Mutant of StatementFails: the failure of an upsert of the document is
\* reported after the upsert took effect.
StatementFails_afterEffect(r, e) ==
  /\ InFlight(reqs[r])
  /\ reqs' = [reqs EXCEPT ![r] = Catch(Issued(@, StmtOf(@.pc), FALSE), e)]
  /\ rows' = IF reqs[r].pc = "dataUpsert" /\ tableExists
             THEN Upsert(rows, STORAGE_KEY, JSON_stringify(reqs[r].kv))
             ELSE rows
  /\ UNCHANGED <<startEnv, loaded, env, workload, tableExists, lastWriter>>

\* The statement an invocation awaits fails (the database is unreachable,
\* the connection drops): it has no effect and the catch block answers.
StatementFails(r, e) ==
  /\ InFlight(reqs[r])
  /\ reqs' = [reqs EXCEPT ![r] = Catch(Issued(@, StmtOf(@.pc), FALSE), e)]
  /\ UNCHANGED <<startEnv, loaded, env, workload, tableExists, rows, lastWriter>>

Next ==
  \/ \E r \in Reqs : \E in \in Arrivals(r) : Receive(r, in[1], in[2], in[3])
  \/ \E r \in Reqs, t \in Times : EnsureSchema(r, t)
  \/ \E r \in Reqs : SelectStorage(r)
  \/ \E r \in Reqs : PingUpsert(r)
  \/ \E r \in Reqs : PingSelect(r)
  \/ \E r \in Reqs : DataUpsert(r)
  \/ \E r \in Reqs, e \in DbErrors : StatementFails(r, e)

Spec == Init /\ [][Next]_vars

\* The statement invocation r awaits returns or fails.
StatementCompletes(r) ==
  \/ \E t \in Times : EnsureSchema(r, t)
  \/ SelectStorage(r)
  \/ PingUpsert(r)
  \/ PingSelect(r)
  \/ DataUpsert(r)
  \/ \E e \in DbErrors : StatementFails(r, e)

\* Every database statement an invocation issues eventually returns or fails.
SpecLive == Spec /\ \A r \in Reqs : WF_vars(StatementCompletes(r))

\* The start of a process: the module load and the requests that need no
\* database statement to be answered.
NextBoot ==
  \/ LoadModule
  \/ \E r \in Reqs : \E in \in Arrivals(r) : Receive(r, in[1], in[2], in[3])

SpecBoot == InitBoot /\ [][NextBoot]_vars

\* ------------------------------------------------------- reading the state
Done(q) == q.pc = "done"
Arrived(q) == q.pc # "idle"
Configured == \E v \in EnvVars : env[v] # ""
\* A statement of the invocation failed.
Faulted(q) == \E i \in 1..Len(q.stmts) : ~q.stmts[i].ok
\* A statement of the invocation inserted or updated a row.
Wrote(q) == \E i \in 1..Len(q.stmts) : q.stmts[i].op = "upsert" /\ q.stmts[i].ok
\* The diag query parameter of the request is '1' or 'true'.
DiagRequest(q) == UrlParses(q.url) /\ DiagParam(q.url) \in {"1", "true"}
\* The handler took the request for a diagnostic one.
Diagnostic(q) == Arrived(q) /\ IsDiag(q.url)
\* The JSON document the request body carries, if it carries one.
BodyDoc(b) ==
  IF b.kind = "string" THEN JsonDoc(IF b.text = "" THEN "{}" ELSE b.text)
  ELSE [ok |-> b.kind = "value", val |-> b.val]
\* A POST that the handler dispatches by its body.
PostRequest(q) == Arrived(q) /\ ~Diagnostic(q) /\ Configured /\ q.method = "POST"
\* The body has a truthy ping.
PingBody(b) == BodyDoc(b).ok /\ Truthy(Prop(BodyDoc(b).val, "ping"))
PingRequest(q) == PostRequest(q) /\ PingBody(q.body)
DataRequest(q) == PostRequest(q) /\ ~PingBody(q.body)
\* The body is exactly {kv: V} for a JSON object V.
KvBody(b) ==
  /\ BodyDoc(b).ok
  /\ BodyDoc(b).val.t = "obj"
  /\ {p[1] : p \in BodyDoc(b).val.kids} = {"kv"}
  /\ Prop(BodyDoc(b).val, "kv").t = "obj"
PostedKv(b) == Prop(BodyDoc(b).val, "kv")
\* Every number of the document is a double (JSON.parse reads it exactly).
RECURSIVE ExactDoubles(_)
ExactDoubles(v) ==
  /\ v.t = "num" => v.a \in {"0", "1", "2"}
  /\ \A p \in v.kids : ExactDoubles(p[2])
PlainGet(q) == Arrived(q) /\ ~Diagnostic(q) /\ Configured /\ q.method = "GET"
OkBody == JObj({<<"ok", JTrue>>})
KvReply(v) == JObj({<<"ok", JTrue>>, <<"kv", v>>})
Answered(q, s, b) == Done(q) /\ q.resp.status = s /\ q.resp.body = b
\* The rows stored under key k.
RowsOf(k) == SelectSeq(rows, LAMBDA x : x.key = k)

\* ------------------------------------------------------------------- claims

\* C1 as stated: round-trip fidelity. For every JSON object V, once a POST
\* with body {kv:V} has been answered 200 {ok:true}, a GET issued afterwards
\* with no other POST in between (and whose statements succeed) is answered
\* 200 {ok:true, kv:V}.
C1_RoundTripAnyDocument ==
  \A p \in Reqs, g \in Reqs :
    ( /\ workload = "serial" /\ p < g
      /\ DataRequest(reqs[p]) /\ KvBody(reqs[p].body)
      /\ Answered(reqs[p], 200, OkBody)
      /\ \A k \in Reqs : (p < k /\ k < g) => ~PostRequest(reqs[k])
      /\ PlainGet(reqs[g]) /\ Done(reqs[g]) /\ ~Faulted(reqs[g]) )
    => Answered(reqs[g], 200, KvReply(PostedKv(reqs[p].body)))

\* C1 amended: the round trip holds for every JSON object V all of whose
\* numbers are doubles, when the statements of the GET succeed.
C1_RoundTrip ==
  \A p \in Reqs, g \in Reqs :
    ( /\ workload = "serial" /\ p < g
      /\ DataRequest(reqs[p]) /\ KvBody(reqs[p].body)
      /\ ExactDoubles(PostedKv(reqs[p].body))
      /\ Answered(reqs[p], 200, OkBody)
      /\ \A k \in Reqs : (p < k /\ k < g) => ~PostRequest(reqs[k])
      /\ PlainGet(reqs[g]) /\ Done(reqs[g]) /\ ~Faulted(reqs[g]) )
    => Answered(reqs[g], 200, KvReply(PostedKv(reqs[p].body)))

\* C1 witness: a nested document posted as an object, acknowledged, and read
\* back by the next GET.
C1_Witness ==
  /\ workload = "serial"
  /\ reqs[1].body = BodyValue(JObj({<<"kv", V2>>}))
  /\ DataRequest(reqs[1]) /\ Answered(reqs[1], 200, OkBody)
  /\ PlainGet(reqs[2]) /\ Answered(reqs[2], 200, KvReply(V2))

\* C2 as stated: with the database reachable (no statement of any request
\* fails) and configuration present, every POST whose body has a truthy
\* ping is answered 200 {ok:true}, whatever the interleaving.
C2_PingAlwaysOk ==
  (\A q \in Reqs : ~Faulted(reqs[q])) =>
    \A r \in Reqs :
      (PingRequest(reqs[r]) /\ Done(reqs[r])) => Answered(reqs[r], 200, OkBody)

\* C3 as stated: every response to a request the handler does not take for
\* a diagnostic one carries Cache-Control: no-store, whatever its status.
C3_NoStoreEverywhere ==
  \A r \in Reqs :
    (Done(reqs[r]) /\ ~Diagnostic(reqs[r])) => NoStore \in reqs[r].resp.headers

\* C4: when none of the five recognised variables is non-empty, every
\* non-diagnostic request is answered 503 pg_not_configured as soon as it
\* arrives, and no invocation issues a database statement.
C4_Unconfigured503 ==
  (\A v \in EnvVars : env[v] = "") =>
    /\ \A r \in Reqs : reqs[r].stmts = <<>>
    /\ ~tableExists => rows = <<>>
    /\ \A r \in Reqs :
         (Arrived(reqs[r]) /\ ~Diagnostic(reqs[r])) =>
           /\ Done(reqs[r])
           /\ reqs[r].resp.status = 503
           /\ Prop(reqs[r].resp.body, "ok") = JFalse
           /\ Prop(reqs[r].resp.body, "error") = JStr("pg_not_configured")

\* C4 witness: without configuration a POST and then a GET have both been
\* answered 503.
C4_Witness ==
  /\ \A v \in EnvVars : env[v] = ""
  /\ reqs[1].method = "POST" /\ ~Diagnostic(reqs[1]) /\ Arrived(reqs[1])
  /\ reqs[1].resp.status = 503
  /\ reqs[2].method = "GET" /\ reqs[2].resp.status = 503

\* C5: a request whose diag query parameter is '1' or 'true' is answered
\* 200 {ok:true, diag:{...}} as soon as it arrives and issues no database
\* statement, for every method and body, configured or not.
C5_DiagNeverTouchesDb ==
  \A r \in Reqs :
    (Arrived(reqs[r]) /\ DiagRequest(reqs[r])) =>
      /\ Done(reqs[r])
      /\ reqs[r].resp.status = 200
      /\ Prop(reqs[r].resp.body, "ok") = JTrue
      /\ Prop(reqs[r].resp.body, "diag").t = "obj"
      /\ reqs[r].stmts = <<>>

\* C5 witness: without configuration, a POST with a ping body and diag=true
\* has been answered 200.
C5_Witness ==
  /\ ~Configured
  /\ reqs[1].method = "POST"
  /\ reqs[1].url = "/api/storage?diag=true"
  /\ reqs[1].body = BodyValue(JObj({<<"ping", JTrue>>}))
  /\ reqs[1].resp.status = 200

\* C6: a request one of whose statements failed has been answered, once,
\* with 500 and a body {ok:false, error, details:{code,name}}.
C6_FailureIs500 ==
  \A r \in Reqs :
    Faulted(reqs[r]) =>
      /\ Done(reqs[r])
      /\ reqs[r].sent = 1
      /\ reqs[r].resp.status = 500
      /\ Prop(reqs[r].resp.body, "ok") = JFalse
      /\ Prop(reqs[r].resp.body, "error").t = "str"
      /\ Prop(reqs[r].resp.body, "error").a # ""
      /\ Prop(reqs[r].resp.body, "details").t = "obj"
      /\ {p[1] : p \in Prop(reqs[r].resp.body, "details").kids} = {"code", "name"}

\* C6 witness: the upsert of a data POST failed with an error that has no
\* message, and the request was answered 500 server_error.
C6_Witness ==
  \E r \in Reqs :
    /\ DataRequest(reqs[r])
    /\ Len(reqs[r].stmts) = 2 /\ ~reqs[r].stmts[2].ok
    /\ reqs[r].resp.status = 500
    /\ Prop(reqs[r].resp.body, "error") = JStr("server_error")

\* C7 as stated: with configuration present, a non-diagnostic request whose
\* method is neither GET nor POST is answered 405 with Allow: GET, POST and
\* {ok:false, error:'method_not_allowed'}, and writes no row.
C7_OtherMethods405 ==
  \A r \in Reqs :
    ( /\ Done(reqs[r]) /\ ~Diagnostic(reqs[r]) /\ Configured
      /\ reqs[r].method \notin {"GET", "POST"} )
    => /\ reqs[r].resp.status = 405
       /\ AllowGetPost \in reqs[r].resp.headers
       /\ reqs[r].resp.body = MethodNotAllowedBody
       /\ ~Wrote(reqs[r])

\* C7 amended: such a request is answered 405 with Allow: GET, POST and
\* {ok:false, error:'method_not_allowed'} when its CREATE TABLE statement
\* succeeds and 500 when that statement fails; either way it issues no
\* other statement and writes no row.
C7_OtherMethods405AfterSchema ==
  \A r \in Reqs :
    ( /\ Arrived(reqs[r]) /\ ~Diagnostic(reqs[r]) /\ Configured
      /\ reqs[r].method \notin {"GET", "POST"} )
    => /\ ~Wrote(reqs[r])
       /\ \A i \in 1..Len(reqs[r].stmts) : reqs[r].stmts[i].op = "create"
       /\ Done(reqs[r]) =>
            IF Faulted(reqs[r]) THEN reqs[r].resp.status = 500
            ELSE /\ reqs[r].resp.status = 405
                 /\ AllowGetPost \in reqs[r].resp.headers
                 /\ reqs[r].resp.body = MethodNotAllowedBody

\* C7 witness: a DELETE with a body has been answered 405 after its schema
\* statement succeeded.
C7_Witness ==
  \E r \in Reqs :
    /\ reqs[r].method = "DELETE" /\ Configured
    /\ reqs[r].body = BodyValue(JObj({<<"kv", V1>>}))
    /\ reqs[r].stmts = <<[op |-> "create", ok |-> TRUE]>>
    /\ reqs[r].resp.status = 405

\* The body of a data POST is malformed: not JSON, or its kv is absent or
\* is not a JSON object.
Malformed(b) == ~BodyDoc(b).ok \/ Prop(BodyDoc(b).val, "kv").t # "obj"

\* C8 as stated: a data POST with a malformed body (whose statements
\* succeed) is answered 200 {ok:true} and stores {} under STORAGE_KEY, and
\* a following GET is answered {ok:true, kv:{}}.
C8_MalformedStoresEmpty ==
  \A p \in Reqs :
    ( /\ workload = "serial"
      /\ DataRequest(reqs[p]) /\ Malformed(reqs[p].body)
      /\ Done(reqs[p]) /\ ~Faulted(reqs[p]) )
    => /\ Answered(reqs[p], 200, OkBody)
       /\ RowsOf(STORAGE_KEY) = <<[key |-> STORAGE_KEY, value |-> EmptyObj]>>
       /\ \A g \in Reqs :
            (p < g /\ PlainGet(reqs[g]) /\ Done(reqs[g]) /\ ~Faulted(reqs[g]))
            => Answered(reqs[g], 200, KvReply(EmptyObj))

\* C9 as stated: the value stored under STORAGE_KEY is always a JSON object.
C9_StoredValueIsObject ==
  \A i \in 1..Len(rows) :
    rows[i].key = STORAGE_KEY => rows[i].value.t = "obj"

\* The table holds at most one row per key and rows under the two keys only.
OneRowPerKey ==
  /\ \A i \in 1..Len(rows) : rows[i].key \in {STORAGE_KEY, PING_KEY}
  /\ Len(RowsOf(STORAGE_KEY)) <= 1
  /\ Len(RowsOf(PING_KEY)) <= 1

\* C10: in every reachable state the table holds at most one row for
\* STORAGE_KEY, at most one for PING_KEY and none under another key, and no
\* step deletes a row.
C10_RowsNeverAccumulate ==
  /\ []OneRowPerKey
  /\ [][\A i \in 1..Len(rows) : \E j \in 1..Len(rows') : rows'[j].key = rows[i].key]_vars

\* C10 witness: two data POSTs have both written and the table holds one
\* row for STORAGE_KEY.
C10_Witness ==
  /\ Len(RowsOf(STORAGE_KEY)) = 1
  /\ \E p \in Reqs, q \in Reqs :
       /\ p # q
       /\ DataRequest(reqs[p]) /\ Wrote(reqs[p])
       /\ DataRequest(reqs[q]) /\ Wrote(reqs[q])

\* C11: a GET on a configured, reachable database, answered before any
\* data-intent POST has written the document, is answered 200 with
\* {ok:true, kv:{}}, whether or not the table existed when the request
\* arrived and whether or not pings were made before.
C11_EmptyBeforeFirstPost ==
  \A r \in Reqs :
    ( /\ PlainGet(reqs[r]) /\ Done(reqs[r]) /\ ~Faulted(reqs[r])
      /\ \A q \in Reqs : ~(DataRequest(reqs[q]) /\ Wrote(reqs[q])) )
    => Answered(reqs[r], 200, KvReply(EmptyObj))

\* A ping has written its row, then a GET was answered with the empty document.
C11_Witness ==
  \E g, p \in Reqs :
    /\ PingRequest(reqs[p]) /\ Wrote(reqs[p]) /\ Done(reqs[p])
    /\ Len(RowsOf(PING_KEY)) = 1
    /\ PlainGet(reqs[g]) /\ ~Faulted(reqs[g])
    /\ Answered(reqs[g], 200, KvReply(EmptyObj))
    /\ \A q \in Reqs : ~(DataRequest(reqs[q]) /\ Wrote(reqs[q]))

\* The document stored under STORAGE_KEY, as the rows hold it.
StoredIs(v) ==
  /\ Len(RowsOf(STORAGE_KEY)) = 1
  /\ RowsOf(STORAGE_KEY)[1].value = v

\* C12 as stated: idempotence. For every JSON object V, once POST {kv:V}
\* has been answered 200, the stored document is V and stays V when the same
\* POST is issued again, and a GET that follows the two POSTs (and whose
\* statements succeed) is answered with V.
C12_IdempotentAnyDocument ==
  ( /\ workload = "repeat"
    /\ KvBody(reqs[1].body)
    /\ Answered(reqs[1], 200, OkBody) )
  => /\ StoredIs(PostedKv(reqs[1].body))
     /\ \A g \in Reqs :
          (g > 2 /\ PlainGet(reqs[g]) /\ Done(reqs[g]) /\ ~Faulted(reqs[g]))
          => Answered(reqs[g], 200, KvReply(PostedKv(reqs[1].body)))

\* C12 amended: the same, for every JSON object V all of whose numbers are
\* doubles.
C12_Idempotent ==
  ( /\ workload = "repeat"
    /\ KvBody(reqs[1].body)
    /\ ExactDoubles(PostedKv(reqs[1].body))
    /\ Answered(reqs[1], 200, OkBody) )
  => /\ StoredIs(PostedKv(reqs[1].body))
     /\ \A g \in Reqs :
          (g > 2 /\ PlainGet(reqs[g]) /\ Done(reqs[g]) /\ ~Faulted(reqs[g]))
          => Answered(reqs[g], 200, KvReply(PostedKv(reqs[1].body)))

\* C12 witness: the same nested document posted twice, both POSTs
\* acknowledged, and the GET that follows answered with the document.
C12_Witness ==
  /\ workload = "repeat"
  /\ reqs[1].body = BodyValue(JObj({<<"kv", V2>>}))
  /\ reqs[2].body = reqs[1].body
  /\ Answered(reqs[1], 200, OkBody) /\ Wrote(reqs[1])
  /\ Answered(reqs[2], 200, OkBody) /\ Wrote(reqs[2])
  /\ StoredIs(V2)
  /\ PlainGet(reqs[3]) /\ Answered(reqs[3], 200, KvReply(V2))

\* The diag member of a diagnostic response body.
DiagOf(q) == Prop(q.resp.body, "diag")

\* C13: module initialisation fallback. If DATABASE_URL is set and
\* POSTGRES_URL is not, then once the module is loaded POSTGRES_URL holds
\* the value of DATABASE_URL and hasPostgresEnv() is true (no request is
\* answered 503, the diagnostic reports both flags true); a POSTGRES_URL
\* that was set keeps its value, and no other variable changes.
C13_DatabaseUrlFallback ==
  loaded =>
    /\ (startEnv["POSTGRES_URL"] = "" /\ startEnv["DATABASE_URL"] # "") =>
          /\ env["POSTGRES_URL"] = startEnv["DATABASE_URL"]
          /\ hasPostgresEnv(env)
          /\ \A r \in Reqs :
               /\ Done(reqs[r]) => reqs[r].resp.status # 503
               /\ (Diagnostic(reqs[r]) /\ Done(reqs[r])) =>
                     /\ Prop(DiagOf(reqs[r]), "hasPostgresEnv") = JTrue
                     /\ Prop(DiagOf(reqs[r]), "has_POSTGRES_URL") = JTrue
    /\ startEnv["POSTGRES_URL"] # "" => env["POSTGRES_URL"] = startEnv["POSTGRES_URL"]
    /\ \A v \in EnvVars \ {"POSTGRES_URL"} : env[v] = startEnv[v]

\* C13 witness: a process started with DATABASE_URL only has loaded the
\* module and answered a diagnostic request.
C13_Witness ==
  /\ loaded
  /\ startEnv = OnlyDatabaseUrl
  /\ env["POSTGRES_URL"] = "postgres://neon/db"
  /\ \E r \in Reqs :
       /\ Diagnostic(reqs[r]) /\ Done(reqs[r])
       /\ Prop(DiagOf(reqs[r]), "has_POSTGRES_URL") = JTrue

\* The same variables are non-empty in e1 and in e2.
SamePresence(e1, e2) == \A v \in EnvVars : (e1[v] = "") <=> (e2[v] = "")

\* C14: the diagnostic response reveals presence only. The body a process
\* answers is the body a process started in any other environment with the
\* same variables non-empty answers (the runtime version being the same),
\* whatever the values of the variables are.
C14_DiagRevealsPresenceOnly ==
  \A r \in Reqs :
    (Diagnostic(reqs[r]) /\ Done(reqs[r])) =>
      \A e \in AllEnvs :
        SamePresence(startEnv, e) => reqs[r].resp.body = DiagBody(ModuleInit(e))

\* C14 witness: a diagnostic answered by a process in whose environment
\* three variables are set, to two different values.
C14_Witness ==
  /\ startEnv["POSTGRES_HOST"] = "postgres://other/db"
  /\ startEnv["POSTGRES_URL"] = "postgres://neon/db"
  /\ startEnv["DATABASE_URL"] = "postgres://other/db"
  /\ \E r \in Reqs :
       /\ Diagnostic(reqs[r]) /\ Answered(reqs[r], 200, DiagBody(env))
       /\ Prop(DiagOf(reqs[r]), "has_POSTGRES_HOST") = JTrue
       /\ Prop(DiagOf(reqs[r]), "has_POSTGRES_PRISMA_URL") = JFalse

\* The kv of a data-intent POST as the handler sends it to the database.
SentKv(q) == JSON_stringify(q.kv)
\* The data-intent POSTs whose upsert has executed.
Writers == {p \in Reqs : DataRequest(reqs[p]) /\ Wrote(reqs[p])}

\* C15: last write wins. Whatever the interleaving, the document a GET is
\* answered with is {} or the whole kv of one data-intent POST whose upsert
\* has executed, and once no data-intent POST is in flight the stored
\* document is the kv of the POST whose upsert executed last.
C15_LastWriteWins ==
  /\ \A g \in Reqs :
       (PlainGet(reqs[g]) /\ Done(reqs[g]) /\ ~Faulted(reqs[g])) =>
         \E v \in {EmptyObj} \cup {SentKv(reqs[p]) : p \in Writers} :
           Answered(reqs[g], 200, KvReply(v))
  /\ ( /\ Writers # {}
       /\ \A p \in Reqs : DataRequest(reqs[p]) => Done(reqs[p]) )
     => /\ lastWriter \in Writers
        /\ StoredIs(SentKv(reqs[lastWriter]))

\* C15 witness: two concurrent POSTs of different documents have both
\* been acknowledged; the one that arrived first wrote last and its document
\* is the stored one.
C15_Witness ==
  /\ workload = "concurrent"
  /\ reqs[1].body = BodyValue(JObj({<<"kv", V1>>}))
  /\ reqs[2].body = BodyValue(JObj({<<"kv", V2>>}))
  /\ Answered(reqs[1], 200, OkBody) /\ Answered(reqs[2], 200, OkBody)
  /\ Writers = {1, 2}
  /\ lastWriter = 1
  /\ StoredIs(V1)

\* The read-back of a ping completes in this step, without a failure.
PingReadBack(r) ==
  /\ reqs[r].pc = "pingSelect"
  /\ Done(reqs'[r]) /\ ~Faulted(reqs'[r])
\* The PING_KEY row exists and holds the stamp that invocation r wrote.
OwnStampStored(r) ==
  /\ Len(RowsOf(PING_KEY)) > 0
  /\ RowsOf(PING_KEY)[1].value = JObj({<<"stamp", JStr(reqs[r].stamp)>>})

\* C16: a ping both of whose statements succeed is answered 200 {ok:true}
\* if the row it reads back for PING_KEY exists and holds the stamp the
\* same request wrote, and 500 with the body {ok:false} and nothing else
\* otherwise.
C16_PingOkIffOwnStamp ==
  [][\A r \in Reqs :
       PingReadBack(r) =>
         IF OwnStampStored(r)
         THEN Answered(reqs'[r], 200, OkBody)
         ELSE Answered(reqs'[r], 500, JObj({<<"ok", JFalse>>}))]_vars

\* C16 witness: of two pings whose statements all succeeded, one was
\* answered 200 {ok:true} and the other 500 {ok:false}.
C16_Witness ==
  \E p, q \in Reqs :
    /\ PingRequest(reqs[p]) /\ ~Faulted(reqs[p])
    /\ Answered(reqs[p], 200, OkBody)
    /\ PingRequest(reqs[q]) /\ ~Faulted(reqs[q])
    /\ Answered(reqs[q], 500, JObj({<<"ok", JFalse>>}))

\* The invocation has reached the database.
TouchesDb(q) == Arrived(q) /\ ~Diagnostic(q) /\ Configured
\* The invocation awaits a SELECT or an upsert.
AwaitsRowStatement(q) ==
  q.pc \in {"select", "pingUpsert", "pingSelect", "dataUpsert"}

\* C17: schema before data. In every request that touches the database
\* the first statement is CREATE TABLE IF NOT EXISTS, it is the only
\* statement unless it succeeded, and it is issued again by every request,
\* also when the table exists already; no SELECT and no upsert is issued
\* or has run against a missing table.
C17_SchemaBeforeData ==
  \A r \in Reqs :
    /\ TouchesDb(reqs[r]) =>
          \/ reqs[r].pc = "schema" /\ reqs[r].stmts = <<>>
          \/ /\ Len(reqs[r].stmts) > 0
             /\ reqs[r].stmts[1].op = "create"
             /\ Len(reqs[r].stmts) > 1 => reqs[r].stmts[1].ok
             /\ \A i \in 2..Len(reqs[r].stmts) : reqs[r].stmts[i].op # "create"
    /\ ~TouchesDb(reqs[r]) => reqs[r].stmts = <<>>
    /\ AwaitsRowStatement(reqs[r]) => tableExists /\ reqs[r].stmts[1].ok
    /\ Done(reqs[r]) => reqs[r].resp.body # ErrorBody(NoTableError)

\* C17 witness: two requests one after the other; the second ran
\* CREATE TABLE IF NOT EXISTS again, then its SELECT.
C17_Witness ==
  /\ workload = "serial"
  /\ Done(reqs[1]) /\ Len(reqs[1].stmts) > 1 /\ reqs[1].stmts[1] = [op |-> "create", ok |-> TRUE]
  /\ Done(reqs[2])
  /\ reqs[2].stmts = <<[op |-> "create", ok |-> TRUE], [op |-> "select", ok |-> TRUE]>>

\* The statements an invocation has issued, in order.
OpsOf(q) == [i \in 1..Len(q.stmts) |-> q.stmts[i].op]
\* The response of a finished request is that of the first rule that
\* matches it: diagnostic, unconfigured, method, body intent.
FirstRuleAnswers(q) ==
  IF Diagnostic(q) THEN Answered(q, 200, DiagBody(env)) /\ OpsOf(q) = <<>>
  ELSE IF ~Configured THEN Answered(q, 503, NotConfiguredBody) /\ OpsOf(q) = <<>>
  ELSE IF q.method \notin {"GET", "POST"}
       THEN Answered(q, 405, MethodNotAllowedBody) /\ OpsOf(q) = <<"create">>
  ELSE IF q.method = "GET"
       THEN /\ q.resp.status = 200
            /\ q.resp.body = KvReply(Prop(q.resp.body, "kv"))
            /\ OpsOf(q) = <<"create", "select">>
  ELSE IF PingBody(q.body)
       THEN /\ \/ Answered(q, 200, OkBody)
               \/ Answered(q, 500, JObj({<<"ok", JFalse>>}))
            /\ OpsOf(q) = <<"create", "upsert", "select">>
  ELSE Answered(q, 200, OkBody) /\ OpsOf(q) = <<"create", "upsert">>
\* What a ping does to the rows: its upsert writes the PING_KEY row, and no
\* step of it changes the STORAGE_KEY row.
PingWritesPingRowOnly ==
  \A r \in Reqs :
    (PingRequest(reqs[r]) /\ reqs'[r] # reqs[r]) =>
      /\ RowsOf(STORAGE_KEY)' = RowsOf(STORAGE_KEY)
      /\ (reqs[r].pc = "pingUpsert" /\ ~Faulted(reqs'[r])) =>
            RowsOf(PING_KEY)' =
              <<[key |-> PING_KEY, value |-> JObj({<<"stamp", JStr(reqs[r].stamp)>>})]>>

\* C18 as stated: the response of every request is that of the first
\* matching rule in the order diagnostic, unconfigured, method, body intent,
\* and a POST with a truthy ping is a ping whatever else its body holds.
C18_PrecedenceEveryRequest ==
  /\ [](\A r \in Reqs : Done(reqs[r]) => FirstRuleAnswers(reqs[r]))
  /\ [][PingWritesPingRowOnly]_vars

\* C18 amended: the same, for every request none of whose database
\* statements fails; ensureSchema() runs between the unconfigured rule and
\* the method rule, and a request one of whose statements fails is
\* answered 500 by the catch block, diagnostic and unconfigured requests
\* having issued no statement.
C18_Precedence ==
  /\ [](\A r \in Reqs :
         /\ (Done(reqs[r]) /\ ~Faulted(reqs[r])) => FirstRuleAnswers(reqs[r])
         /\ (Done(reqs[r]) /\ Faulted(reqs[r])) =>
               /\ reqs[r].resp.status = 500
               /\ ~Diagnostic(reqs[r]) /\ Configured)
  /\ [][PingWritesPingRowOnly]_vars

\* C18 witness: a POST with a truthy ping and a kv object was handled as a
\* ping next to a data-intent POST; the stored document is that of the
\* data-intent POST and the ping row holds the stamp.
C18_Witness ==
  \E p, d \in Reqs :
    /\ reqs[p].body = BodyValue(JObj({<<"ping", JTrue>>, <<"kv", V2>>}))
    /\ PingRequest(reqs[p]) /\ Answered(reqs[p], 200, OkBody)
    /\ OpsOf(reqs[p]) = <<"create", "upsert", "select">>
    /\ DataRequest(reqs[d]) /\ Answered(reqs[d], 200, OkBody)
    /\ StoredIs(V1)
    /\ RowsOf(PING_KEY) =
         <<[key |-> PING_KEY, value |-> JObj({<<"stamp", JStr(reqs[p].stamp)>>})]>>

\* C19: frame. A step changes the STORAGE_KEY row only if it is the upsert
\* of a data-intent POST that is answered 200: no step of a GET, of a
\* diagnostic, ping, 405 or 503 request and no step of a data-intent POST
\* answered 500 changes it; and no step of a data-intent POST changes the
\* PING_KEY row.
C19_StorageRowFrame ==
  [][\A r \in Reqs :
       reqs'[r] # reqs[r] =>
         /\ RowsOf(STORAGE_KEY)' # RowsOf(STORAGE_KEY) =>
               /\ DataRequest(reqs[r])
               /\ reqs[r].pc = "dataUpsert"
               /\ Answered(reqs'[r], 200, OkBody)
         /\ DataRequest(reqs'[r]) => RowsOf(PING_KEY)' = RowsOf(PING_KEY)]_vars

\* C19 witness: a data-intent POST whose upsert failed was answered 500
\* beside one that stored its document; the stored document is untouched.
C19_Witness ==
  \E p, d \in Reqs :
    /\ DataRequest(reqs[d]) /\ Answered(reqs[d], 200, OkBody)
    /\ DataRequest(reqs[p]) /\ Done(reqs[p]) /\ reqs[p].resp.status = 500
    /\ reqs[p].stmts = <<[op |-> "create", ok |-> TRUE], [op |-> "upsert", ok |-> FALSE]>>
    /\ SentKv(reqs[p]) # SentKv(reqs[d])
    /\ StoredIs(SentKv(reqs[d]))

\* C20: exactly one response. No invocation sends two responses, an
\* invocation has finished exactly when it has sent one, and, every
\* statement eventually returning or failing, every request that arrived
\* is eventually answered, on the error path too.
C20_ExactlyOneResponse ==
  /\ [](\A r \in Reqs :
         /\ reqs[r].sent <= 1
         /\ Done(reqs[r]) <=> reqs[r].sent = 1
         /\ Done(reqs[r]) <=> reqs[r].resp # NoResp)
  /\ \A r \in Reqs : Arrived(reqs[r]) ~> Done(reqs[r])

\* C20 witness: of two concurrent requests one was answered by the catch
\* block and one by its own branch, each once.
C20_Witness ==
  \E p, q \in Reqs :
    /\ workload = "concurrent"
    /\ Done(reqs[p]) /\ Faulted(reqs[p]) /\ reqs[p].sent = 1
    /\ reqs[p].resp.status = 500
    /\ Done(reqs[q]) /\ ~Faulted(reqs[q]) /\ reqs[q].sent = 1
    /\ Len(reqs[q].stmts) > 1
====
